---- MODULE Spec2Model ----
(***************************************************************************)
(* Stock View Pro (src/app.py): the cached loader load_and_process_data,   *)
(* its indicator columns (moving averages, Bollinger Bands, Ichimoku spans,*)
(* RSI, MACD), the display-window trim, and the main content that calls it.*)
(*                                                                         *)
(* Numbers.  A pandas float cell is modelled exactly, as a pair <<n, d>>:  *)
(*   d > 0            the rational n/d in lowest terms                     *)
(*   <<0, 1>>, <<0, -1>>   +0.0 and -0.0                                   *)
(*   <<1, 0>>, <<-1, 0>>   +inf and -inf                                   *)
(*   <<0, 0>>         NaN, which is also pandas' "undefined" cell          *)
(* A standard deviation is a square root, kept as a + b*sqrt(v).           *)
(* Rounding of IEEE doubles is not modelled.                               *)
(*                                                                         *)
(* Time.  A timestamp is a number of ticks, TicksPerDay ticks a day; a     *)
(* date is a day number, day 0 a Monday; the bar of date d is stamped at   *)
(* d * TicksPerDay (midnight).                                             *)
(***************************************************************************)
EXTENDS Integers, Sequences, FiniteSets, TLC

VARIABLES
    now,     \* the clock: what datetime.today() returns, in ticks
    src,     \* the market data Yahoo holds for the listed symbol
    cache,   \* st.cache_data's memo of load_and_process_data
    full,    \* the function's local df after line 99, of the last executed body
    df,      \* the main content's df: the table the last call returned
    shown,   \* what the main content rendered: "none", "error", "chart"
    last_call  \* the arguments and the time of the last call of load_and_process_data

vars == <<now, src, cache, full, df, shown, last_call>>

-----------------------------------------------------------------------------
(* Float arithmetic *)

Abs(a) == IF a < 0 THEN -a ELSE a

Min2(a, b) == IF a <= b THEN a ELSE b

Max2(a, b) == IF a >= b THEN a ELSE b

RECURSIVE Gcd(_, _)
Gcd(a, b) == IF b = 0 THEN a ELSE Gcd(b, a % b)

Lcm(a, b) == (a \div Gcd(a, b)) * b

NaN == <<0, 0>>

PosZero == <<0, 1>>

NegZero == <<0, -1>>

Inf(sgn) == <<sgn, 0>>

Zero(sgn) == <<0, sgn>>

IsNaN(x) == x[1] = 0 /\ x[2] = 0

IsInf(x) == x[1] # 0 /\ x[2] = 0

IsZero(x) == x[1] = 0 /\ x[2] # 0


\* the sign bit: 1 or -1 (0 for NaN)
Sign(x) == IF x[1] > 0 THEN 1 ELSE IF x[1] < 0 THEN -1 ELSE x[2]

\* n/d with d > 0, in lowest terms; an exact zero result is +0.0
Rat(n, d) ==
    IF n = 0 THEN PosZero
    ELSE LET g == Gcd(Abs(n), d) IN <<n \div g, d \div g>>

Num(k) == <<k, 1>>

FNeg(x) ==
    IF IsNaN(x) THEN NaN
    ELSE IF x[1] = 0 THEN <<0, -x[2]>>
    ELSE <<-x[1], x[2]>>

FAdd(x, y) ==
    IF IsNaN(x) \/ IsNaN(y) THEN NaN
    ELSE IF IsInf(x) THEN (IF IsInf(y) /\ y[1] # x[1] THEN NaN ELSE x)
    ELSE IF IsInf(y) THEN y
    ELSE IF x[1] = 0 /\ y[1] = 0
         THEN (IF x[2] < 0 /\ y[2] < 0 THEN NegZero ELSE PosZero)
    ELSE IF x[1] = 0 THEN y
    ELSE IF y[1] = 0 THEN x
    ELSE LET l == Lcm(x[2], y[2])
         IN Rat(x[1] * (l \div x[2]) + y[1] * (l \div y[2]), l)

FSub(x, y) == FAdd(x, FNeg(y))

FMul(x, y) ==
    IF IsNaN(x) \/ IsNaN(y) THEN NaN
    ELSE IF (IsInf(x) /\ IsZero(y)) \/ (IsZero(x) /\ IsInf(y)) THEN NaN
    ELSE IF IsInf(x) \/ IsInf(y) THEN Inf(Sign(x) * Sign(y))
    ELSE IF x[1] = 0 \/ y[1] = 0 THEN Zero(Sign(x) * Sign(y))
    ELSE LET g1 == Gcd(Abs(x[1]), y[2])
             g2 == Gcd(Abs(y[1]), x[2])
         IN <<(x[1] \div g1) * (y[1] \div g2), (x[2] \div g2) * (y[2] \div g1)>>

FDiv(x, y) ==
    IF IsNaN(x) \/ IsNaN(y) THEN NaN
    ELSE IF IsInf(x) THEN (IF IsInf(y) THEN NaN ELSE Inf(Sign(x) * Sign(y)))
    ELSE IF IsInf(y) THEN Zero(Sign(x) * Sign(y))
    ELSE IF y[1] = 0 THEN (IF x[1] = 0 THEN NaN ELSE Inf(Sign(x) * Sign(y)))
    ELSE IF x[1] = 0 THEN Zero(Sign(x) * Sign(y))
    ELSE FMul(x, IF y[1] > 0 THEN <<y[2], y[1]>> ELSE <<-y[2], -y[1]>>)

\* x == y as floats: NaN equals nothing, +0.0 equals -0.0
FEq(x, y) ==
    /\ ~IsNaN(x)
    /\ ~IsNaN(y)
    /\ \/ x = y
       \/ IsZero(x) /\ IsZero(y)

\* x > y as floats: any comparison with NaN is False
FGt(x, y) ==
    /\ ~IsNaN(x)
    /\ ~IsNaN(y)
    /\ IF IsInf(x) \/ IsInf(y)
       THEN (IF IsInf(x) THEN x[1] ELSE 0) > (IF IsInf(y) THEN y[1] ELSE 0)
       ELSE x[1] * Abs(y[2]) > y[1] * Abs(x[2])

FLt(x, y) == FGt(y, x)

FGe(x, y) == FGt(x, y) \/ FEq(x, y)

(* a + b*sqrt(v): the value of a standard deviation and of what is built on it *)

SNaN == [a |-> NaN, b |-> NaN, v |-> NaN]

SIsNaN(s) == IsNaN(s.a) \/ IsNaN(s.b) \/ IsNaN(s.v)

\* sqrt of a non-negative rational
FSqrt(q) == IF IsNaN(q) \/ (Sign(q) < 0 /\ ~IsZero(q)) THEN SNaN
            ELSE [a |-> PosZero, b |-> Num(1), v |-> q]

SOf(q) == IF IsNaN(q) THEN SNaN ELSE [a |-> q, b |-> PosZero, v |-> PosZero]

SRadicand(s, t) == IF IsZero(s.b) THEN t.v ELSE s.v

SAdd(s, t) ==
    IF SIsNaN(s) \/ SIsNaN(t) THEN SNaN
    ELSE [a |-> FAdd(s.a, t.a), b |-> FAdd(s.b, t.b), v |-> SRadicand(s, t)]

SSub(s, t) ==
    IF SIsNaN(s) \/ SIsNaN(t) THEN SNaN
    ELSE [a |-> FSub(s.a, t.a), b |-> FSub(s.b, t.b), v |-> SRadicand(s, t)]

SScale(k, s) ==
    IF SIsNaN(s) THEN SNaN
    ELSE [a |-> FMul(Num(k), s.a), b |-> FMul(Num(k), s.b), v |-> s.v]

\* s == t as real numbers (same radicand, or none)
SEq(s, t) ==
    /\ ~SIsNaN(s)
    /\ ~SIsNaN(t)
    /\ FEq(s.a, t.a)
    /\ \/ FEq(s.b, t.b) /\ (IsZero(s.b) \/ FEq(s.v, t.v))
       \/ IsZero(s.v) /\ IsZero(t.v)

\* p + q*sqrt(v) >= 0
SNonNeg(p, q, v) ==
    LET pz == FGe(p, PosZero)
        qz == FGe(q, PosZero) \/ IsZero(v)
    IN IF pz /\ qz THEN TRUE
       ELSE IF ~pz /\ ~FGt(q, PosZero) THEN FALSE
       ELSE IF IsZero(v) THEN pz
       ELSE IF pz THEN FGe(FMul(p, p), FMul(FMul(q, q), v))
       ELSE FGe(FMul(FMul(q, q), v), FMul(p, p))

\* s >= t as real numbers
SGe(s, t) ==
    /\ ~SIsNaN(s)
    /\ ~SIsNaN(t)
    /\ LET d == SSub(s, t) IN SNonNeg(d.a, d.b, d.v)

\* a function on 1..n as the sequence of its values
AsList(xs) == SubSeq(xs, 1, Len(xs))

-----------------------------------------------------------------------------
(* The clock and the data source (yf.download, line 52) *)

TicksPerDay == 2

\* the first date whose midnight stamp is >= t
DateAtOrAfter(t) == -((-t) \div TicksPerDay)

IsWeekday(d) == d % 7 < 5

\* the number of weekdays among the days 0 .. d-1 (negative before day 0)
WeekdaysBefore(d) == 5 * (d \div 7) + Min2(d % 7, 5)

\* the date of the weekday with that ordinal: WeekdaysBefore(DateOfOrdinal(o)) = o
DateOfOrdinal(o) == 7 * (o \div 5) + (o % 5)

ListedSymbol == "7203.T"

UnknownSymbol == "0000.T"

Symbols == {ListedSymbol, UnknownSymbol}

(* src: [listed, last: first and last date with a bar; base: the close;
         tail: the closes of the last Len(tail) bars; spike, dip: the dates
         where High rises and Low falls by amp; vol: the volume, which also
         rises by amp on the spike date] *)

CloseOn(s, d) ==
    LET after == WeekdaysBefore(s.last + 1) - WeekdaysBefore(d + 1)
    IN IF after < Len(s.tail) THEN s.tail[Len(s.tail) - after] ELSE s.base

BarOn(s, d) ==
    [Date   |-> d,
     Open   |-> Num(CloseOn(s, d)),
     High   |-> Num(CloseOn(s, d) + (IF d = s.spike THEN s.amp ELSE 0)),
     Low    |-> Num(CloseOn(s, d) - (IF d = s.dip THEN s.amp ELSE 0)),
     Close  |-> Num(CloseOn(s, d)),
     Volume |-> Num(s.vol + (IF d = s.spike THEN s.amp ELSE 0))]

\* yf.download(symbol, start, end, interval="1d"): the daily bars stamped in
\* [start, end), ascending by date; no rows for a symbol Yahoo does not know
Download(s, symbol, start, end) ==
    IF symbol # ListedSymbol THEN <<>>
    ELSE LET lo == Max2(s.listed, DateAtOrAfter(start))
             hi == Min2(s.last, DateAtOrAfter(end) - 1)
             o1 == WeekdaysBefore(lo)
             n  == WeekdaysBefore(hi + 1) - o1
         IN IF n <= 0 THEN <<>>
            ELSE AsList([k \in 1..n |-> BarOn(s, DateOfOrdinal(o1 + k - 1))])

-----------------------------------------------------------------------------
(* pandas column operations.  A column is a sequence of floats; row i of   *)
(* the frame (0-based, as iloc) is element i + 1.                          *)

Column(rows, name) == [i \in 1..Len(rows) |-> rows[i][name]]

\* cumulative sums of xs[lo..hi], continuing from prev
RECURSIVE CumSeg(_, _, _, _)
CumSeg(xs, prev, lo, hi) ==
    IF lo = hi THEN <<FAdd(prev, xs[lo])>>
    ELSE LET mid  == (lo + hi) \div 2
             left == CumSeg(xs, prev, lo, mid)
         IN left \o CumSeg(xs, left[Len(left)], mid + 1, hi)

CumSum(xs) == IF Len(xs) = 0 THEN <<>> ELSE CumSeg(xs, PosZero, 1, Len(xs))

\* rolling(window=w, min_periods=1).mean(): the mean of the rows there are, a
\* variant that leaves no row undefined
RollingMeanMinPeriods1(xs, w) ==
    LET cs == CumSum(xs)
    IN [i \in 1..Len(xs) |->
          IF i < w THEN FDiv(cs[i], Num(i))
          ELSE FDiv(FSub(cs[i], IF i = w THEN PosZero ELSE cs[i - w]), Num(w))]

\* Series.rolling(window=w).mean(): min_periods = w, so NaN on the first w-1 rows
RollingMean(xs, w) ==
    LET cs == CumSum(xs)
    IN [i \in 1..Len(xs) |->
          IF i < w THEN NaN
          ELSE FDiv(FSub(cs[i], IF i = w THEN PosZero ELSE cs[i - w]), Num(w))]

Square(xs) == [i \in 1..Len(xs) |-> FMul(xs[i], xs[i])]

\* rolling(window=w).std(ddof=0): the population deviation, a variant that
\* divides by w
RollingStdPopulation(xs, w) ==
    LET cs  == CumSum(xs)
        cs2 == CumSum(Square(xs))
    IN [i \in 1..Len(xs) |->
          IF i < w THEN SNaN
          ELSE LET sum  == FSub(cs[i], IF i = w THEN PosZero ELSE cs[i - w])
                   sum2 == FSub(cs2[i], IF i = w THEN PosZero ELSE cs2[i - w])
                   ssq  == FSub(sum2, FDiv(FMul(sum, sum), Num(w)))
               IN FSqrt(FDiv(ssq, Num(w)))]

\* Series.rolling(window=w).std(): ddof = 1, the variance never negative
RollingStd(xs, w) ==
    LET cs  == CumSum(xs)
        cs2 == CumSum(Square(xs))
    IN [i \in 1..Len(xs) |->
          IF i < w THEN SNaN
          ELSE LET sum  == FSub(cs[i], IF i = w THEN PosZero ELSE cs[i - w])
                   sum2 == FSub(cs2[i], IF i = w THEN PosZero ELSE cs2[i - w])
                   ssq  == FSub(sum2, FDiv(FMul(sum, sum), Num(w)))
               IN FSqrt(FDiv(ssq, Num(w - 1)))]

FMax(x, y) == IF FGt(y, x) THEN y ELSE x

FMin(x, y) == IF FLt(y, x) THEN y ELSE x

\* Series.rolling(window=w).max(): NaN on the first w-1 rows, then the greatest of
\* the w values ending at the row; a window of w rows is covered by the two windows
\* of (w+1) \div 2 rows at its ends
RECURSIVE RollingMax(_, _)
RollingMax(xs, w) ==
    IF w = 1 THEN xs
    ELSE LET h    == (w + 1) \div 2
             part == RollingMax(xs, h)
         IN AsList([i \in 1..Len(xs) |->
                      IF i < w THEN NaN ELSE FMax(part[i], part[i - (w - h)])])

\* Series.rolling(window=w).min()
RECURSIVE RollingMin(_, _)
RollingMin(xs, w) ==
    IF w = 1 THEN xs
    ELSE LET h    == (w + 1) \div 2
             part == RollingMin(xs, h)
         IN AsList([i \in 1..Len(xs) |->
                      IF i < w THEN NaN ELSE FMin(part[i], part[i - (w - h)])])

\* Series.shift(k): row i takes the value of row i - k, the first k rows NaN
\* numpy.roll(xs, k): a variant that wraps the last k rows round to the front
ShiftWrap(xs, k) ==
    [i \in 1..Len(xs) |-> xs[((i - 1 - k) % Len(xs)) + 1]]

Shift(xs, k) == [i \in 1..Len(xs) |-> IF i <= k THEN NaN ELSE xs[i - k]]

\* Series.diff()
Diff(xs) == [i \in 1..Len(xs) |-> IF i = 1 THEN NaN ELSE FSub(xs[i], xs[i - 1])]

\* Series.ewm(alpha=a, adjust=False).mean() on rows lo..hi, prev the mean of row lo-1:
\* y[0] = x[0], y[t] = (1 - a) * y[t-1] + a * x[t]
RECURSIVE EwmSeg(_, _, _, _, _)
EwmSeg(xs, a, prev, lo, hi) ==
    IF lo = hi
    THEN <<IF lo = 1 THEN xs[1]
           ELSE FAdd(FMul(FSub(Num(1), a), prev), FMul(a, xs[lo]))>>
    ELSE LET mid  == (lo + hi) \div 2
             left == EwmSeg(xs, a, prev, lo, mid)
         IN left \o EwmSeg(xs, a, left[Len(left)], mid + 1, hi)

EwmMean(xs, a) == IF Len(xs) = 0 THEN <<>> ELSE EwmSeg(xs, a, NaN, 1, Len(xs))

\* ewm(span=n): alpha = 2 / (n + 1)
\* ewm(com=n): alpha = 1 / (n + 1), a variant that reads the span as a
\* centre of mass
ComAlpha(n) == Rat(1, n + 1)

SpanAlpha(n) == Rat(2, n + 1)

-----------------------------------------------------------------------------
(* load_and_process_data *)

Periods == {"1mo", "3mo", "6mo", "1y", "2y", "5y"}

period_map == [p \in Periods |->
    CASE p = "1mo" -> 30 [] p = "3mo" -> 90 [] p = "6mo" -> 180
      [] p = "1y" -> 365 [] p = "2y" -> 730 [] p = "5y" -> 1825]

\* period_map.get(period_str, 365)
Days(period_str) == IF period_str \in Periods THEN period_map[period_str] ELSE 365

\* line 46: end_date - timedelta(days=days)
DisplayStart(end_date, period_str) == end_date - Days(period_str) * TicksPerDay

\* a variant with a buffer of 100 calendar days
FetchStart100(end_date, period_str) ==
    DisplayStart(end_date, period_str) - 100 * TicksPerDay

\* line 49: display_start - timedelta(days=200)
FetchStart(end_date, period_str) ==
    DisplayStart(end_date, period_str) - 200 * TicksPerDay

ColAdd(xs, ys) == [i \in 1..Len(xs) |-> FAdd(xs[i], ys[i])]

ColSub(xs, ys) == [i \in 1..Len(xs) |-> FSub(xs[i], ys[i])]

ColHalf(xs) == [i \in 1..Len(xs) |-> FDiv(xs[i], Num(2))]

\* the frame yf.download returns, by column; Date is its index
Frame(rows) ==
    [Date   |-> Column(rows, "Date"),  Open |-> Column(rows, "Open"),
     High   |-> Column(rows, "High"),  Low  |-> Column(rows, "Low"),
     Close  |-> Column(rows, "Close"), Volume |-> Column(rows, "Volume")]

\* lines 57-61
MovingAverages(f) ==
    f @@ [MA5         |-> RollingMean(f.Close, 5),
          MA25        |-> RollingMean(f.Close, 25),
          MA75        |-> RollingMean(f.Close, 75),
          Volume_MA20 |-> RollingMean(f.Volume, 20)]

\* lines 66-67
Bands(f) ==
    f @@ [BB_Upper |-> [i \in 1..Len(f.Date) |->
                          SAdd(SOf(f.BB_MA20[i]), SScale(2, f.BB_Std[i]))],
          BB_Lower |-> [i \in 1..Len(f.Date) |->
                          SSub(SOf(f.BB_MA20[i]), SScale(2, f.BB_Std[i]))]]

\* lines 63-67
Bollinger(f) ==
    Bands(f @@ [BB_MA20 |-> RollingMean(f.Close, 20),
                BB_Std  |-> RollingStd(f.Close, 20)])

\* (high_w + low_w) / 2 of lines 71-73, 75-77, 81-83
MidPrice(f, w) == ColHalf(ColAdd(RollingMax(f.High, w), RollingMin(f.Low, w)))

\* lines 69-83
Ichimoku(f) ==
    f @@ [SpanA |-> Shift(ColHalf(ColAdd(MidPrice(f, 9), MidPrice(f, 26))), 26),
          SpanB |-> Shift(MidPrice(f, 52), 26)]

\* line 87
Gain(delta) ==
    [i \in 1..Len(delta) |-> IF FGt(delta[i], PosZero) THEN delta[i] ELSE PosZero]

\* line 88
Loss(delta) ==
    [i \in 1..Len(delta) |->
        FNeg(IF FLt(delta[i], PosZero) THEN delta[i] ELSE PosZero)]

\* lines 91-92
RsiOf(avg_gain, avg_loss) ==
    [i \in 1..Len(avg_gain) |->
        FSub(Num(100),
             FDiv(Num(100), FAdd(Num(1), FDiv(avg_gain[i], avg_loss[i]))))]

\* lines 85-92
RSI(f) ==
    f @@ [RSI |-> RsiOf(EwmMean(Gain(Diff(f.Close)), Rat(1, 14)),
                        EwmMean(Loss(Diff(f.Close)), Rat(1, 14)))]

\* line 99
Histogram(f) == f @@ [MACD_Hist |-> ColSub(f.MACD, f.Signal)]

\* line 98
SignalLine(f) == f @@ [Signal |-> EwmMean(f.MACD, SpanAlpha(9))]

\* lines 94-99
MACD(f) ==
    Histogram(SignalLine(
        f @@ [MACD |-> ColSub(EwmMean(f.Close, SpanAlpha(12)),
                              EwmMean(f.Close, SpanAlpha(26)))]))

\* the rows of a frame, each a record of its cells
Rows(f) == [i \in 1..Len(f.Date) |-> [c \in DOMAIN f |-> f[c][i]]]

\* lines 57-99: the frame with every indicator column added
Indicators(rows) ==
    Rows(MACD(RSI(Ichimoku(Bollinger(MovingAverages(Frame(rows)))))))

\* line 102: df[df.index >= display_start]
KeepRow(row, display_start) == row.Date * TicksPerDay >= display_start

\* a variant that also drops the rows with an undefined cell (dropna)
TrimDropna(table, display_start) ==
    LET keep(row) == /\ KeepRow(row, display_start)
                     /\ \A c \in table.columns :
                           IF c \in {"BB_Std", "BB_Upper", "BB_Lower"}
                           THEN ~SIsNaN(row[c])
                           ELSE ~IsNaN(row[c])
    IN [columns |-> table.columns, rows |-> SelectSeq(table.rows, keep)]

Trim(table, display_start) ==
    LET keep(row) == KeepRow(row, display_start)
    IN [columns |-> table.columns, rows |-> SelectSeq(table.rows, keep)]

PriceColumns == {"Open", "High", "Low", "Close", "Volume"}

IndicatorColumns ==
    {"MA5", "MA25", "MA75", "Volume_MA20", "BB_MA20", "BB_Std", "BB_Upper",
     "BB_Lower", "SpanA", "SpanB", "RSI", "MACD", "Signal", "MACD_Hist"}

\* pd.DataFrame(): no rows, no columns
EmptyFrame == [columns |-> {}, rows |-> <<>>]

\* DataFrame.empty
IsEmpty(table) == Len(table.rows) = 0 \/ table.columns = {}

\* a variant without the early return of lines 54-55
ComputedNoGuard(s, symbol, period_str, t) ==
    [columns |-> PriceColumns \cup IndicatorColumns,
     rows    |-> Indicators(Download(s, symbol, FetchStart(t, period_str), t))]

\* lines 52-99 run at time t: the frame before the trim
Computed(s, symbol, period_str, t) ==
    IF Len(Download(s, symbol, FetchStart(t, period_str), t)) = 0
    THEN EmptyFrame
    ELSE [columns |-> PriceColumns \cup IndicatorColumns,
          rows    |-> Indicators(Download(s, symbol, FetchStart(t, period_str), t))]

\* lines 54-55 and 101-103: what the body returns, the frame of the early return
\* (no columns) as it is, any other trimmed
Returned(table, display_start) ==
    IF table.columns = {} THEN table ELSE Trim(table, display_start)

-----------------------------------------------------------------------------
(* The cache, the calls and the main content *)

\* what a caller may pass as period_str: the six choices, and one that is
\* not in period_map
PeriodArgs == Periods \cup {"max"}

CacheKeys == Symbols \X PeriodArgs

Cached(key) == Len(cache[key]) = 1

\* @st.cache_data with no ttl and no max_entries: the first call with given
\* arguments runs the body and stores what it returns; every later call with
\* the same arguments returns the stored frame
Load(symbol, period_str) ==
    /\ last_call' = [symbol |-> symbol, period_str |-> period_str, at |-> now]
    /\ IF Cached(<<symbol, period_str>>)
       THEN /\ df' = cache[<<symbol, period_str>>][1]
            /\ UNCHANGED <<cache, full>>
       ELSE /\ full' = Computed(src, symbol, period_str, now)
            /\ df' = Returned(full', DisplayStart(now, period_str))
            /\ cache' = [cache EXCEPT ![<<symbol, period_str>>] = <<df'>>]

\* a call of load_and_process_data(symbol, period_str) on its own
Call(symbol, period_str) ==
    /\ Load(symbol, period_str)
    /\ UNCHANGED <<now, src, shown>>

\* lines 180-186: one run of the script's main content
Rerun(ticker, period_choice) ==
    /\ period_choice \in Periods
    /\ Load(ticker, period_choice)
    /\ shown' = IF IsEmpty(df') THEN "error" ELSE "chart"
    /\ UNCHANGED <<now, src>>

StartDay == 0

MaxTicks == 3

MaxCached == 1

\* time passes between two runs of the script
Tick ==
    /\ now < StartDay * TicksPerDay + MaxTicks
    /\ now' = now + 1
    /\ UNCHANGED <<src, cache, full, df, shown, last_call>>

NoCall == [symbol |-> "", period_str |-> "", at |-> 0]

NothingCached == \A key \in CacheKeys : ~Cached(key)

CacheHasRoom(key) ==
    Cached(key) \/ Cardinality({k \in CacheKeys : Cached(k)}) < MaxCached

Fresh ==
    /\ cache = [key \in CacheKeys |-> <<>>]
    /\ full = EmptyFrame
    /\ df = EmptyFrame
    /\ shown = "none"
    /\ last_call = NoCall

\* a stock listed a few days ago, still trading
AppSources ==
    {[listed |-> StartDay - back, last |-> StartDay + 30, base |-> 5, tail |-> <<>>,
      spike |-> StartDay - 1, dip |-> StartDay - 2, amp |-> 1, vol |-> 10] :
        back \in {3, 10}}

Init ==
    /\ now = StartDay * TicksPerDay
    /\ src \in AppSources
    /\ Fresh

Next ==
    \/ Tick
    \/ \E ticker \in Symbols, period_choice \in Periods :
          /\ CacheHasRoom(<<ticker, period_choice>>)
          /\ Rerun(ticker, period_choice)

Spec == Init /\ [][Next]_vars

-----------------------------------------------------------------------------
(* load_and_process_data as a function of the clock and of the period: the  *)
(* first call of a session, at every time of a fortnight, on a stock with   *)
(* a bar on every weekday                                                   *)

CalTicks == 14

LongHistory == 3000

CalSources ==
    {[listed |-> StartDay - LongHistory, last |-> StartDay + 30, base |-> 5,
      tail |-> <<>>, spike |-> StartDay - 40, dip |-> StartDay - 50, amp |-> 2,
      vol |-> 10]}

InitCal ==
    /\ now \in {StartDay * TicksPerDay + k : k \in 0..(CalTicks - 1)}
    /\ src \in CalSources
    /\ Fresh

NextCal ==
    \E symbol \in Symbols, period_str \in PeriodArgs :
        /\ NothingCached
        /\ Call(symbol, period_str)

SpecCal == InitCal /\ [][NextCal]_vars

-----------------------------------------------------------------------------
(* The indicator columns as functions of the fetched series: the first call *)
(* of a session on series of chosen lengths and shapes                      *)

MaxRows == 80

MaxEwmRows == 2

MaxClose == 8

\* the date of the bar that is k bars before the bar of date d
BarsBack(d, k) == DateOfOrdinal(WeekdaysBefore(d) - k)

\* a series of n bars ending lag days before today: flat at 5 but for its last
\* closes, High raised on the bar j bars before the last, Low cut 3 bars earlier
Shaped(n, lag, tail, j) ==
    LET last == BarsBack(StartDay - lag + 1, 1)
    IN [listed |-> BarsBack(last, n - 1), last |-> last, base |-> 5, tail |-> tail,
        spike |-> BarsBack(last, j), dip |-> BarsBack(last, j + 3), amp |-> 2,
        vol |-> 10]

RollSources ==
    {Shaped(MaxRows, 1, tail, j) :
        tail \in {<<>>, <<7, 4>>}, j \in 0..(MaxRows - 1)}
    \cup {Shaped(MaxRows - 30, 17, tail, j) :
        tail \in {<<6>>, <<4, 8>>}, j \in 0..(MaxRows - 31)}

\* a stock with at most MaxEwmRows bars, of any closes up to MaxClose
EwmSources ==
    UNION {{[listed |-> BarsBack(StartDay, n), last |-> BarsBack(StartDay, 1),
             base |-> 1, tail |-> tail, spike |-> StartDay, dip |-> StartDay,
             amp |-> 0, vol |-> 10] :
               tail \in [1..n -> 1..MaxClose]} : n \in 1..MaxEwmRows}

InitSeries ==
    /\ now = StartDay * TicksPerDay + 1
    /\ src \in RollSources \cup EwmSources
    /\ Fresh

NextSeries ==
    \E symbol \in Symbols :
        /\ NothingCached
        /\ Call(symbol, "1mo")

SpecSeries == InitSeries /\ [][NextSeries]_vars

-----------------------------------------------------------------------------
(* Properties.  Row indices are 0-based positions in the fetched series:   *)
(* the frame the body holds before the trim.                               *)

\* the number of rows of the fetched series
NRows == Len(full.rows)

\* the cell of column c at index i of the fetched series
Cell(i, c) == full.rows[i + 1][c]

\* the closes of the fetched series
Closes == [i \in 1..NRows |-> full.rows[i].Close]

\* the smoothed average loss of line 90 at index i
AvgLossAt(i) == EwmMean(Loss(Diff(Closes)), Rat(1, 14))[i + 1]

InRange0To100(x) == ~IsNaN(x) /\ FGe(x, Num(0)) /\ FGe(Num(100), x)

(* C1: at every row of a non-empty fetched series of positive closes, from
   index 0 on, RSI is a defined number in [0, 100]. *)
C1_RsiDefinedInRange ==
    \A i \in 0..(NRows - 1) : InRange0To100(Cell(i, "RSI"))

(* C2: wherever the smoothed average loss is exactly zero, RSI is exactly
   100 and not NaN, whether the average gain is positive or zero. *)
C2_ZeroLossGives100 ==
    \A i \in 0..(NRows - 1) :
        IsZero(AvgLossAt(i)) => FEq(Cell(i, "RSI"), Num(100))

\* the values of column c of the fetched series
Vals(c) == [i \in 1..NRows |-> full.rows[i][c]]

\* xs[lo] + ... + xs[hi]
RECURSIVE SumOf(_, _, _)
SumOf(xs, lo, hi) ==
    IF lo > hi THEN PosZero ELSE FAdd(SumOf(xs, lo, hi - 1), xs[hi])

\* the arithmetic mean of the w values of column c at indices i-w+1 .. i
MeanOf(c, i, w) == FDiv(SumOf(Vals(c), i - w + 2, i + 1), Num(w))

MaSpecs ==
    {<<"MA5", "Close", 5>>, <<"MA25", "Close", 25>>, <<"MA75", "Close", 75>>,
     <<"Volume_MA20", "Volume", 20>>}

(* C3: each moving-average column (5, 25, 75 on Close, 20 on Volume) is, at
   index i >= w-1, the mean of exactly the w values at i-w+1 .. i, and is
   undefined at every index i < w-1. *)
C3_MovingAverageWindow ==
    \A m \in MaSpecs : \A i \in 0..(NRows - 1) :
        IF i >= m[3] - 1
        THEN FEq(Cell(i, m[1]), MeanOf(m[2], i, m[3]))
        ELSE IsNaN(Cell(i, m[1]))

C3_Witness ==
    /\ NRows > 75
    /\ IsNaN(Cell(73, "MA75"))
    /\ ~IsNaN(Cell(74, "MA75"))
    /\ ~FEq(Cell(NRows - 1, "MA75"), Cell(NRows - 3, "MA75"))
    /\ ~FEq(Cell(NRows - 1, "Volume_MA20"), Cell(19, "Volume_MA20"))

\* the highest High and the lowest Low of the w rows ending at index i
HighestHigh(i, w) ==
    LET S == {Cell(j, "High") : j \in (i - w + 1)..i}
    IN CHOOSE m \in S : \A x \in S : FGe(m, x)

LowestLow(i, w) ==
    LET S == {Cell(j, "Low") : j \in (i - w + 1)..i}
    IN CHOOSE m \in S : \A x \in S : FGe(x, m)

MidAt(i, w) == FDiv(FAdd(HighestHigh(i, w), LowestLow(i, w)), Num(2))

(* C4: SpanA at index i is (Conversion + Base)/2 of index i-26 and SpanB at
   index i is the 52-bar (max High + min Low)/2 of index i-26, counted in
   rows; SpanA is undefined at every i < 51 and SpanB at every i < 77. *)
C4_SpansShiftedByRows ==
    \A i \in 0..(NRows - 1) :
        /\ IF i >= 51
           THEN FEq(Cell(i, "SpanA"),
                    FDiv(FAdd(MidAt(i - 26, 9), MidAt(i - 26, 26)), Num(2)))
           ELSE IsNaN(Cell(i, "SpanA"))
        /\ IF i >= 77
           THEN FEq(Cell(i, "SpanB"), MidAt(i - 26, 52))
           ELSE IsNaN(Cell(i, "SpanB"))

C4_Witness ==
    /\ NRows > 78
    /\ IsNaN(Cell(50, "SpanA"))
    /\ IsNaN(Cell(76, "SpanB"))
    /\ ~FEq(Cell(77, "SpanB"), Cell(78, "SpanB"))
    /\ ~FEq(Cell(51, "SpanA"), Cell(78, "SpanA"))

\* the exponential mean of span n of the closes at indices 0 .. k-1, by the
\* recursion avg_t = a * x_t + (1 - a) * avg_(t-1), a = 2 / (n + 1), avg_0 = x_0
RECURSIVE EmaOfCloses(_, _)
EmaOfCloses(n, k) ==
    IF k = 1 THEN <<Cell(0, "Close")>>
    ELSE LET before == EmaOfCloses(n, k - 1)
             a      == FDiv(Num(2), Num(n + 1))
         IN Append(before,
                FAdd(FMul(a, Cell(k - 1, "Close")),
                     FMul(FSub(Num(1), a), before[k - 1])))

(* C5: MACD, Signal and MACD_Hist are defined at every row from index 0 on;
   MACD is EMA12 - EMA26 of Close and Signal the EMA9 of MACD, each seeded
   with its first input and following avg_t = a*x_t + (1-a)*avg_(t-1) with
   a = 2/(N+1); all three are 0 at index 0; MACD_Hist = MACD - Signal. *)
C5_MacdSeededRecursion ==
    NRows > 0 =>
        LET ema12 == EmaOfCloses(12, NRows)
            ema26 == EmaOfCloses(26, NRows)
            a9    == FDiv(Num(2), Num(10))
        IN \A i \in 0..(NRows - 1) :
            /\ FEq(Cell(i, "MACD"), FSub(ema12[i + 1], ema26[i + 1]))
            /\ FEq(Cell(i, "MACD_Hist"), FSub(Cell(i, "MACD"), Cell(i, "Signal")))
            /\ IF i = 0
               THEN /\ FEq(Cell(0, "MACD"), Num(0))
                    /\ FEq(Cell(0, "Signal"), Num(0))
                    /\ FEq(Cell(0, "MACD_Hist"), Num(0))
               ELSE FEq(Cell(i, "Signal"),
                        FAdd(FMul(a9, Cell(i, "MACD")),
                             FMul(FSub(Num(1), a9), Cell(i - 1, "Signal"))))

C5_Witness ==
    /\ NRows > 1
    /\ ~FEq(Cell(NRows - 1, "MACD"), Num(0))
    /\ ~FEq(Cell(NRows - 1, "Signal"), Num(0))
    /\ ~FEq(Cell(NRows - 1, "MACD_Hist"), Num(0))

\* the display start of the last call
LastDisplayStart == DisplayStart(last_call.at, last_call.period_str)

\* the indices of the fetched series dated at or after the display start
DisplayIndices ==
    {i \in 0..(NRows - 1) : Cell(i, "Date") * TicksPerDay >= LastDisplayStart}

(* C6: the trim returns exactly the rows of the computed table dated at or
   after display_start, in their order, every cell as in the full table. *)
C6_TrimKeepsDisplayRows ==
    last_call.symbol = ListedSymbol =>
        LET first == NRows - Cardinality(DisplayIndices)
        IN /\ DisplayIndices = first..(NRows - 1)
           /\ df.columns = full.columns
           /\ Len(df.rows) = Cardinality(DisplayIndices)
           /\ \A k \in 1..Len(df.rows) : df.rows[k] = full.rows[first + k]

\* a 50-row table with the display start at row 40
C6_Witness ==
    /\ NRows = 50
    /\ DisplayIndices = 40..49
    /\ Len(df.rows) = 10
    /\ df.rows[1] = full.rows[41]
    /\ IsNaN(df.rows[1].MA75)
    /\ ~IsNaN(df.rows[1].MA25)

\* the sum of (xs[k] - mu)^2 for k in lo .. hi
RECURSIVE SumSqDev(_, _, _, _)
SumSqDev(xs, mu, lo, hi) ==
    IF lo > hi THEN PosZero
    ELSE FAdd(SumSqDev(xs, mu, lo, hi - 1),
              FMul(FSub(xs[hi], mu), FSub(xs[hi], mu)))

\* the sample standard deviation of the 20 closes at indices i-19 .. i
SigmaAt(i) ==
    LET mu == MeanOf("Close", i, 20)
    IN IF IsNaN(mu) THEN SNaN
       ELSE FSqrt(FDiv(SumSqDev(Vals("Close"), mu, i - 18, i + 1), Num(19)))

(* C9: BB_Upper, BB_MA20 and BB_Lower are defined exactly at indices i >= 19;
   there, with sigma the standard deviation of the 20 closes at i-19 .. i,
   BB_Upper - BB_Lower = 4 * sigma and BB_Upper >= BB_MA20 >= BB_Lower. *)
C9_BollingerBands ==
    \A i \in 0..(NRows - 1) :
        IF i >= 19
        THEN /\ ~IsNaN(Cell(i, "BB_MA20"))
             /\ SEq(SSub(Cell(i, "BB_Upper"), Cell(i, "BB_Lower")),
                    SScale(4, SigmaAt(i)))
             /\ SGe(Cell(i, "BB_Upper"), SOf(Cell(i, "BB_MA20")))
             /\ SGe(SOf(Cell(i, "BB_MA20")), Cell(i, "BB_Lower"))
        ELSE /\ IsNaN(Cell(i, "BB_MA20"))
             /\ SIsNaN(Cell(i, "BB_Upper"))
             /\ SIsNaN(Cell(i, "BB_Lower"))

C9_Witness ==
    /\ NRows > 20
    /\ SIsNaN(Cell(18, "BB_Upper"))
    /\ ~SIsNaN(Cell(19, "BB_Upper"))
    /\ ~SEq(Cell(NRows - 1, "BB_Upper"), SOf(Cell(NRows - 1, "BB_MA20")))

\* the first weekday at or after date d
FirstWeekday(d) == IF IsWeekday(d) THEN d ELSE d + (7 - (d % 7))

\* the source has a bar on every weekday of the last call's fetch range
EveryWeekdaySupplied ==
    /\ last_call.symbol = ListedSymbol
    /\ src.listed * TicksPerDay <= LastDisplayStart - 200 * TicksPerDay
    /\ src.last * TicksPerDay >= last_call.at

(* C7: for every period choice (and the 365-day default of an unknown one)
   the fetch range starts 200 calendar days before display_start, and when
   the source has a bar on every weekday of it, every row of the returned
   window has at least 77 bars before it in the fetched series, so MA75,
   SpanA and SpanB are defined on every display row. *)
C7_LookbackCoversWindows ==
    EveryWeekdaySupplied =>
        /\ NRows > 0
        /\ Cell(0, "Date") =
              FirstWeekday(DateAtOrAfter(LastDisplayStart - 200 * TicksPerDay))
        /\ \A k \in 1..Len(df.rows) :
              LET i == NRows - Len(df.rows) + k - 1
              IN /\ i >= 77
                 /\ df.rows[k] = full.rows[i + 1]
                 /\ ~IsNaN(df.rows[k].MA75)
                 /\ ~IsNaN(df.rows[k].SpanA)
                 /\ ~IsNaN(df.rows[k].SpanB)

C7_Witness ==
    /\ EveryWeekdaySupplied
    /\ last_call.period_str = "max"
    /\ Len(df.rows) > 200
    /\ NRows - Len(df.rows) >= 77
    /\ ~IsNaN(df.rows[1].SpanB)

(* C8: when the fetched series has zero rows the body returns before any
   indicator step an empty table, with no rows and no columns; the main
   content then shows the error message and no chart. *)
C8_EmptyFetchShortCircuits ==
    [][\A key \in CacheKeys :
          (/\ ~Cached(key)
           /\ Cached(key)'
           /\ Len(Download(src, key[1], FetchStart(now, key[2]), now)) = 0)
          => (/\ full' = EmptyFrame
              /\ df' = EmptyFrame
              /\ shown' = "error")]_vars

C8_Witness ==
    /\ last_call.symbol = UnknownSymbol
    /\ Cached(<<UnknownSymbol, last_call.period_str>>)
    /\ full = EmptyFrame
    /\ df = EmptyFrame
    /\ shown = "error"

\* the instants of the day of instant t
InstantsOfDay(t) ==
    LET day == t \div TicksPerDay
    IN day * TicksPerDay .. day * TicksPerDay + TicksPerDay - 1

\* what the body returns when run with the last call's arguments at instant t
FreshResult(t) ==
    Returned(Computed(src, last_call.symbol, last_call.period_str, t),
             DisplayStart(t, last_call.period_str))

(* C10: caching does not affect computed values: every call returns the
   table a fresh computation on the call's date returns (the series fetched
   up to that day, trimmed to the rows dated at or after that day minus the
   period's day count); a result the cache stored on an earlier day is never
   returned in its place. *)
C10_CallReturnsFreshTable ==
    last_call # NoCall =>
        \E t \in InstantsOfDay(last_call.at) : df = FreshResult(t)

====
